---- MODULE Spec2Model ----
(***************************************************************************)
(* Model of class merge_srt of audiobook-to-AI-Training-data.py: the       *)
(* alignment of an ebook text against a one-word-per-record srt            *)
(* transcript, the csv ledger it writes, and the resume from that ledger.  *)
(*                                                                         *)
(* Strings are sequences of one-character strings.  The output of the      *)
(* external phonemizer (espeak) is not interpreted by the program except   *)
(* for its length, so a phonetic string is represented by its length and,  *)
(* where it is written to the ledger, by the placeholder Phon.  The        *)
(* external fuzzysearch is a nondeterministic choice of candidates that    *)
(* satisfy its contract.                                                   *)
(***************************************************************************)
EXTENDS Integers, Sequences, FiniteSets, TLC

\* ------------------------------------------------------------------ bounds
MaxWords == 2       \* srt records accepted by one run
MaxLines == 2       \* lines of the ebook text, when the transcript is enumerated
MaxLineLen == 3     \* characters of one line of the ebook text, when the text is enumerated
MaxTextLines == 1   \* lines of the ebook text, when the text is enumerated
MaxCands == 2       \* candidates fuzzysearch returns for one chunk
MaxRuns == 2        \* invocations of merge_srt
MaxProbeWords == 3  \* srt records of a transcript on which to_ms is called on its own
MaxQuoteLen == 4    \* characters of a text on which quotesplit is called on its own

\* ---------------------------------------------------------- input alphabets
\* characters of the ebook text: a letter, a blank, a plain quote, the csv
\* separator, and "''" for a typographic quote
Alphabet == {"a", " ", "\"", "|", "''"}
\* lengths of the phonemes espeak returns for one srt word (trailing blank included)
WordLens == {2, 1100}
\* lengths of the phonemes espeak returns for one chunk of the ebook
ChunkLens == {1, 4}
\* timestamps of the srt file, as the fields of HH:MM:SS,mmm
Stamps ==
  { [h |-> 0, m |-> 0, s |-> 0, ms |-> 500],
    [h |-> 0, m |-> 1, s |-> 1, ms |-> 0] }
\* the word line of an srt record (without its newline)
SrtWords == { <<"a">>, <<"a", " ", "b">>, <<"a", "\t", "b">> }
\* the line after the word line: blank, end of file, or something else
Separators == { <<"\n">>, <<>>, <<"x", "\n">> }
\* match.start values tried for a candidate (relative to the cursor)
RelStarts == {0, 1, 2, 750, 999}

\* The inputs a behaviour draws from.  The transcript and the ebook are read by
\* separate loops, so one of the two is enumerated in full and the other is kept
\* small: TimingScope enumerates the srt records, TextScope the ebook lines.
TimingScope ==
  [ words |-> MaxWords, stamps |-> Stamps, wordlens |-> WordLens,
    srtwords |-> {w \in SrtWords : "\t" \notin {w[i] : i \in DOMAIN w}},
    alphabet |-> {"a"}, linelen |-> 1, lines |-> MaxLines, chunklens |-> ChunkLens ]
TextScope ==
  [ words |-> 1, stamps |-> Stamps, wordlens |-> {2}, srtwords |-> SrtWords,
    alphabet |-> Alphabet, linelen |-> MaxLineLen, lines |-> MaxTextLines,
    chunklens |-> ChunkLens ]

\* timestamps and phoneme lengths of the transcripts on which to_ms is called on
\* its own: 00:00:00,000  00:00:00,500  00:00:00,900  00:00:01,400, words of 6
ProbeStamps ==
  { [h |-> 0, m |-> 0, s |-> 0, ms |-> 0],
    [h |-> 0, m |-> 0, s |-> 0, ms |-> 500],
    [h |-> 0, m |-> 0, s |-> 0, ms |-> 900],
    [h |-> 0, m |-> 0, s |-> 1, ms |-> 400] }
ProbeWordLens == {6}
ResolverScope ==
  [ words |-> MaxProbeWords, stamps |-> ProbeStamps, wordlens |-> ProbeWordLens,
    srtwords |-> {w \in SrtWords : Len(w) = 1},
    alphabet |-> {"a"}, linelen |-> 1, lines |-> 0, chunklens |-> ChunkLens ]

\* a transcript shorter or longer than the window of a long chunk, chunks of
\* both sides of the 80 characters, one timestamp
WindowWordLens == {150, 1100}
WindowChunkLens == {4, 100}
WindowScope ==
  [ words |-> MaxWords, stamps |-> {t \in Stamps : t.m = 0}, wordlens |-> WindowWordLens,
    srtwords |-> {w \in SrtWords : Len(w) = 1},
    alphabet |-> {"a"}, linelen |-> 1, lines |-> MaxLines, chunklens |-> WindowChunkLens ]

\* ------------------------------------------------------------------ strings
Whitespace == {" ", "\t", "\n"}

RECURSIVE RStrip(_)
\* str.rstrip()
RStrip(s) ==
  IF s = <<>> THEN s
  ELSE IF s[Len(s)] \in Whitespace THEN RStrip(SubSeq(s, 1, Len(s) - 1))
  ELSE s

RECURSIVE LStrip(_)
\* str.lstrip()
LStrip(s) ==
  IF s = <<>> THEN s
  ELSE IF s[1] \in Whitespace THEN LStrip(Tail(s))
  ELSE s

\* str.find(c, from): 0-based index of the first c at or after from, -1 if none
Find(s, c, from) ==
  LET hits == {i \in from..(Len(s) - 1) : s[i + 1] = c}
  IN  IF hits = {} THEN -1 ELSE CHOOSE i \in hits : \A j \in hits : i <= j

\* s[a:b] of Python, for 0 <= a
Slice(s, a, b) == SubSeq(s, a + 1, IF b > Len(s) THEN Len(s) ELSE b)

RECURSIVE Split(_, _)
\* str.split(sep): the fields between the separators
Split(s, sep) ==
  LET i == Find(s, sep, 0)
  IN  IF i = -1 THEN <<s>>
      ELSE <<Slice(s, 0, i)>> \o Split(Slice(s, i + 1, Len(s)), sep)

Digits == <<"0", "1", "2", "3", "4", "5", "6", "7", "8", "9">>

RECURSIVE IntToStr(_)
\* the decimal rendering of an f-string field {start}
IntToStr(n) ==
  IF n < 0 THEN <<"-">> \o IntToStr(0 - n)
  ELSE IF n < 10 THEN <<Digits[n + 1]>>
  ELSE IntToStr(n \div 10) \o <<Digits[(n % 10) + 1]>>

DigitValue(c) == CHOOSE d \in 0..9 : Digits[d + 1] = c

IsDigits(s) == s # <<>> /\ \A i \in DOMAIN s : \E d \in 1..10 : Digits[d] = s[i]

\* whether int(s) succeeds
IsInt(s) ==
  LET t == LStrip(RStrip(s))
  IN  IF t # <<>> /\ t[1] \in {"-", "+"} THEN IsDigits(Tail(t)) ELSE IsDigits(t)

RECURSIVE DigitsToInt(_)
DigitsToInt(s) ==
  IF s = <<>> THEN 0
  ELSE 10 * DigitsToInt(SubSeq(s, 1, Len(s) - 1)) + DigitValue(s[Len(s)])

\* int(s)
StrToInt(s) ==
  LET t == LStrip(RStrip(s))
  IN  IF t[1] = "-" THEN 0 - DigitsToInt(Tail(t))
      ELSE IF t[1] = "+" THEN DigitsToInt(Tail(t))
      ELSE DigitsToInt(t)

\* all strings over alphabet A of length at most n
StringsUpTo(A, n) == UNION { [1..k -> A] : k \in 0..n }

\* ---------------------------------------------------------------- the files
\* text_path.with_suffix('.csv'): the file __init__ tests and read_csv reads
CkptPath == "text.csv"
\* the other value csv_path can take (the default: audiobook.with_suffix('.csv'))
AltPath == "audiobook.csv"
Paths == {CkptPath, AltPath}

NoFile == [exists |-> FALSE, lines |-> <<>>]
File(ls) == [exists |-> TRUE, lines |-> ls]

\* the placeholder of a phonetic string in the ledger
Phon == <<"~">>

\* f"{logtype}|{start}|{stop}|{t}\n", without the newline
LogLine(logtype, start, stop, t) ==
  <<logtype, "|">> \o IntToStr(start) \o <<"|">> \o IntToStr(stop) \o <<"|">> \o t

\* f"# {line}\n", without the newline
CommentLine(line) == <<"#", " ">> \o line

\* a ledger left by an earlier run or by hand: absent, empty, one G record, a G
\* record followed by a G line of three fields, or a G line whose start is no number
OldLedgers ==
  { NoFile, File(<<>>), File(<<LogLine("G", 0, 500, <<"a">>)>>),
    File(<<LogLine("G", 0, 500, <<"a">>), <<"G", "|", "0", "|", "5">>>>),
    File(<<<<"G", "|", "x", "|", "5", "|", "a">>>>) }

\* ------------------------------------------------------------------- state
VARIABLES
  scope,         \* the input sets of this behaviour (TimingScope or TextScope)
  fs,            \* the csv files on disk: path -> [exists, lines]
  csv_path,      \* the csv_path argument of merge_srt
  nruns,         \* invocations of merge_srt started so far
  prev,          \* outcome and slicelist of the preceding invocation
  mode,          \* "resume" (read_csv) or "fresh" (alignment) for this invocation
  pc,            \* position of __init__
  outcome,       \* how this invocation ended ("none" while it runs)
  slicelist,     \* self.slicelist
  csvpos,        \* read_csv: lines of the ledger read so far
  reported,      \* read_csv: the line number its message printed (0: no message)
  counter,       \* read_srt: the record counter expected next
  srt_len,       \* len(self.srt_text)
  srt_offsets,   \* self.srt_offsets
  srt_times,     \* self.srt_times
  srt_gtext,     \* self.srt_gtext
  srt_rec,       \* read_srt: the record read last (its counter line, word line, separator)
  srt_offset,    \* self.srt_offset, the cursor
  bookonlytext,  \* self.bookonlytext
  srtonlytext,   \* self.srtonlytext
  goodtext,      \* self.goodtext
  nlines,        \* read_text: lines of the ebook read so far
  chunks,        \* read_text: chunks of the current line not yet written
  nchunks,       \* write_text calls that returned in this invocation
  last_call,     \* write_text: the call made by the last step (NoCall after any other step)
  probe          \* a function called on its own: its arguments and its result

vars == <<scope, fs, csv_path, nruns, prev, mode, pc, outcome, slicelist, csvpos, counter,
          srt_len, srt_offsets, srt_times, srt_gtext, srt_rec, srt_offset, bookonlytext,
          srtonlytext,
          goodtext, nlines, chunks, nchunks, reported, last_call, probe>>

srtVars == <<counter, srt_len, srt_offsets, srt_times, srt_gtext, srt_rec>>
logVars == <<bookonlytext, srtonlytext, goodtext>>
textVars == <<nlines, chunks, nchunks, last_call>>
runVars == <<scope, csv_path, nruns, prev, mode, probe>>
csvVars == <<csvpos, reported>>

\* ------------------------------------------------------- pure functions
\* srt_time_to_ms with the minutes and hours left out
srt_time_to_ms_seconds_only(t) == t.ms + t.s * 1000

\* srt_time_to_ms, on the fields of "HH:MM:SS,mmm"
srt_time_to_ms(t) ==
  LET hours == t.h
      minutes == t.m + hours * 60
      seconds == t.s + minutes * 60
  IN  t.ms + seconds * 1000

\* bisect_left on a sorted list: the number of elements below x
bisect_left(a, x) == Cardinality({i \in DOMAIN a : a[i] < x})

\* a[i] of Python for a list a and an index -len(a) <= i < len(a)
PyIndex(a, i) == IF i < 0 THEN a[Len(a) + i + 1] ELSE a[i + 1]

\* whether to_ms(offset) raises IndexError
to_ms_raises(offsets, times, offset) == Len(times) = 0

\* to_ms that returns the start of the word instead of the middle of the gap
to_ms_no_halving(offsets, times, offset) ==
  LET pos0 == bisect_left(offsets, offset)
  IN  IF pos0 = 0 THEN PyIndex(times, pos0)[1]
      ELSE IF pos0 = Len(offsets) THEN PyIndex(times, pos0 - 1)[2]
      ELSE LET before == PyIndex(offsets, pos0 - 1)
               after == PyIndex(offsets, pos0)
               pos == IF after - offset >= offset - before THEN pos0 - 1 ELSE pos0
           IN  PyIndex(times, pos)[1]

\* to_ms that gives an offset halfway between two words to the later one
to_ms_tie_later(offsets, times, offset) ==
  LET pos0 == bisect_left(offsets, offset)
  IN  IF pos0 = 0 THEN PyIndex(times, pos0)[1]
      ELSE IF pos0 = Len(offsets) THEN PyIndex(times, pos0 - 1)[2]
      ELSE LET before == PyIndex(offsets, pos0 - 1)
               after == PyIndex(offsets, pos0)
               pos == IF after - offset > offset - before THEN pos0 - 1 ELSE pos0
           IN  PyIndex(times, pos - 1)[2]
                 + ((PyIndex(times, pos)[1] - PyIndex(times, pos - 1)[2]) \div 2)

\* to_ms
to_ms(offsets, times, offset) ==
  LET pos0 == bisect_left(offsets, offset)
  IN  IF pos0 = 0 THEN PyIndex(times, pos0)[1]
      ELSE IF pos0 = Len(offsets) THEN PyIndex(times, pos0 - 1)[2]
      ELSE LET before == PyIndex(offsets, pos0 - 1)
               after == PyIndex(offsets, pos0)
               pos == IF after - offset >= offset - before THEN pos0 - 1 ELSE pos0
           IN  PyIndex(times, pos - 1)[2]
                 + ((PyIndex(times, pos)[1] - PyIndex(times, pos - 1)[2]) \div 2)

\* dumbquote of the dumbquotes package: typographic quotes become plain ones
dumbquote(text) == [i \in DOMAIN text |-> IF text[i] = "''" THEN "\"" ELSE text[i]]

RECURSIVE quotesplit_loop(_, _)
\* the while loop of quotesplit
quotesplit_loop(text, output) ==
  IF text = <<>> THEN output
  ELSE LET index == Find(text, "\"", 0)
       IN  IF index = 0
           THEN LET i == Find(text, "\"", 1)
                IN  IF i # -1
                    THEN quotesplit_loop(LStrip(Slice(text, i + 1, Len(text))),
                                         Append(output, Slice(text, 0, i + 1)))
                    ELSE Append(output, text)
           ELSE IF index = -1
           THEN Append(output, text)
           ELSE quotesplit_loop(LStrip(Slice(text, index, Len(text))),
                                Append(output, Slice(text, 0, index)))

\* quotesplit
quotesplit(text) == quotesplit_loop(dumbquote(RStrip(LStrip(text))), <<>>)

\* ------------------------------------------------------------------ log
\* log() with the record written over the ledger instead of after it
log_overwrite(st, logtype, start, stop, text) ==
  [lines |-> <<LogLine(logtype, start, stop, text[Len(text)])>>,
   good |-> IF logtype = "G" THEN st.good + 1 ELSE st.good,
   book |-> IF logtype = "B" THEN st.book + 1 ELSE st.book,
   srt |-> IF logtype = "S" THEN st.srt + 1 ELSE st.srt,
   slices |-> IF logtype = "G"
              THEN Append(st.slices, [start |-> start, end |-> stop,
                                      text |-> text[Len(text)]])
              ELSE st.slices]

\* log() with every record handed to the file slicer, not only the "G" ones
log_slices_all(st, logtype, start, stop, text) ==
  LET t == text[Len(text)]
      comments == [i \in 1..(Len(text) - 1) |-> CommentLine(text[i])]
  IN  [lines |-> st.lines \o comments \o <<LogLine(logtype, start, stop, t)>>,
       good |-> IF logtype = "G" THEN st.good + 1 ELSE st.good,
       book |-> IF logtype = "B" THEN st.book + 1 ELSE st.book,
       srt |-> IF logtype = "S" THEN st.srt + 1 ELSE st.srt,
       slices |-> Append(st.slices, [start |-> start, end |-> stop, text |-> t])]

\* log() with an "M" record counted as book text discarded
log_m_as_book(st, logtype, start, stop, text) ==
  LET t == text[Len(text)]
      comments == [i \in 1..(Len(text) - 1) |-> CommentLine(text[i])]
  IN  [lines |-> st.lines \o comments \o <<LogLine(logtype, start, stop, t)>>,
       good |-> IF logtype = "G" THEN st.good + 1 ELSE st.good,
       book |-> IF logtype \in {"B", "M"} THEN st.book + 1 ELSE st.book,
       srt |-> IF logtype = "S" THEN st.srt + 1 ELSE st.srt,
       slices |-> IF logtype = "G"
                  THEN Append(st.slices, [start |-> start, end |-> stop, text |-> t])
                  ELSE st.slices]

\* the part of the state log() changes
LogState == [lines |-> fs[csv_path].lines, good |-> goodtext, book |-> bookonlytext,
             srt |-> srtonlytext, slices |-> slicelist]

\* log(logtype, start, stop, text), for the four known logtypes
log(st, logtype, start, stop, text) ==
  LET t == text[Len(text)]
      comments == [i \in 1..(Len(text) - 1) |-> CommentLine(text[i])]
  IN  [lines |-> st.lines \o comments \o <<LogLine(logtype, start, stop, t)>>,
       good |-> IF logtype = "G" THEN st.good + 1 ELSE st.good,
       book |-> IF logtype = "B" THEN st.book + 1 ELSE st.book,
       srt |-> IF logtype = "S" THEN st.srt + 1 ELSE st.srt,
       slices |-> IF logtype = "G"
                  THEN Append(st.slices, [start |-> start, end |-> stop, text |-> t])
                  ELSE st.slices]

\* ------------------------------------------------------------ fuzzysearch
\* The candidates find_near_matches may return for a pattern of plen characters
\* in a window of wlen characters with max_l_dist = maxdist: a span of the
\* window whose length differs from plen by at most its distance.
Candidates(plen, wlen, maxdist) ==
  { c \in UNION { { [start |-> s, end |-> s + plen - d, dist |-> d],
                     [start |-> s, end |-> s + plen + d, dist |-> d] } :
                   s \in RelStarts, d \in {0, maxdist} } :
      c.end <= wlen }

\* the lists of candidates, in order of position
CandidateLists(plen, wlen, maxdist) ==
  LET C == Candidates(plen, wlen, maxdist)
  IN  { cs \in UNION { [1..k -> C] : k \in 0..MaxCands } :
          \A i \in 1..(Len(cs) - 1) : cs[i].start < cs[i + 1].start }

\* ------------------------------------------------------------- write_text
\* len(ptext) above which only twice its length is searched
LongChunk == 80
\* the characters searched for a shorter chunk
ShortWindow == 2000
\* the scale of the acceptance test
AcceptScale == 1000

\* the window of a short chunk taken for every chunk
WindowEnd_short(cursor, plen) == cursor + ShortWindow

\* the end of the window write_text searches, for a cursor and len(ptext)
WindowEnd(cursor, plen) ==
  IF plen > LongChunk THEN cursor + plen + plen ELSE cursor + ShortWindow

\* len(self.srt_text[cursor:end])
WindowLen(cursor, end) ==
  LET stop == IF end > srt_len THEN srt_len ELSE end
  IN  IF stop > cursor THEN stop - cursor ELSE 0

\* the acceptance test with <= for <
Accepted_le(match, plen) == match.start * plen <= AcceptScale * (plen - match.dist)

\* match.start < 1000 * (1 - match.dist / len(ptext)), in whole numbers
Accepted(match, plen) == match.start * plen < AcceptScale * (plen - match.dist)

RECURSIVE scan_relative_end(_, _, _, _, _)
\* scan with the cursor set to match.end, the offset inside the window
scan_relative_end(st, cursor, matches, plen, text) ==
  IF matches = <<>>
  THEN LET ms == to_ms(srt_offsets, srt_times, cursor)
       IN  [st |-> log(st, "B", ms, ms, <<Phon, text>>), cursor |-> cursor]
  ELSE LET match == Head(matches)
           start == match.start + cursor
           end == match.end + cursor
           startms == to_ms(srt_offsets, srt_times, start)
           endms == to_ms(srt_offsets, srt_times, end)
       IN  IF Accepted(match, plen)
           THEN LET st1 == IF match.start # 0
                           THEN log(st, "S", to_ms(srt_offsets, srt_times, cursor),
                                    startms, <<Phon>>)
                           ELSE st
                IN  [st |-> log(st1, "G", startms, endms, <<Phon, Phon, text>>),
                     cursor |-> match.end]
           ELSE scan_relative_end(log(st, "M", startms, endms, <<Phon, Phon>>),
                                  cursor, Tail(matches), plen, text)

RECURSIVE scan_always_skip(_, _, _, _, _)
\* scan that writes the S record also for a match at the cursor
scan_always_skip(st, cursor, matches, plen, text) ==
  IF matches = <<>>
  THEN LET ms == to_ms(srt_offsets, srt_times, cursor)
       IN  [st |-> log(st, "B", ms, ms, <<Phon, text>>), cursor |-> cursor]
  ELSE LET match == Head(matches)
           start == match.start + cursor
           end == match.end + cursor
           startms == to_ms(srt_offsets, srt_times, start)
           endms == to_ms(srt_offsets, srt_times, end)
       IN  IF Accepted(match, plen)
           THEN LET st1 == log(st, "S", to_ms(srt_offsets, srt_times, cursor),
                               startms, <<Phon>>)
                IN  [st |-> log(st1, "G", startms, endms, <<Phon, Phon, text>>),
                     cursor |-> end]
           ELSE scan_always_skip(log(st, "M", startms, endms, <<Phon, Phon>>),
                                 cursor, Tail(matches), plen, text)

RECURSIVE scan(_, _, _, _, _)
\* the for loop of write_text over the candidates left, and the code after it;
\* the result is the state of log() and the cursor
scan(st, cursor, matches, plen, text) ==
  IF matches = <<>>
  THEN LET ms == to_ms(srt_offsets, srt_times, cursor)
       IN  [st |-> log(st, "B", ms, ms, <<Phon, text>>), cursor |-> cursor]
  ELSE LET match == Head(matches)
           start == match.start + cursor
           end == match.end + cursor
           startms == to_ms(srt_offsets, srt_times, start)
           endms == to_ms(srt_offsets, srt_times, end)
       IN  IF Accepted(match, plen)
           THEN LET st1 == IF match.start # 0
                           THEN log(st, "S", to_ms(srt_offsets, srt_times, cursor),
                                    startms, <<Phon>>)
                           ELSE st
                IN  [st |-> log(st1, "G", startms, endms, <<Phon, Phon, text>>),
                     cursor |-> end]
           ELSE scan(log(st, "M", startms, endms, <<Phon, Phon>>),
                     cursor, Tail(matches), plen, text)

\* ---------------------------------------------------------------- actions
\* the timestamp line has not been read
NoStamp == [h |-> 0, m |-> 0, s |-> 0, ms |-> 0]

\* no srt record has been read, or the one read last is no longer at hand
NoRecord == [n |-> 0, expected |-> 0, t1 |-> NoStamp, t2 |-> NoStamp, word |-> <<>>,
             sep |-> <<>>]

\* no write_text call was made by the last step
NoCall == [plen |-> 0, matches |-> <<>>, cursor |-> 0, text |-> <<>>, lines |-> 0,
           slices |-> <<>>]

\* no function has been called on its own
NoProbe == [fn |-> "none"]

\* the state before merge_srt is first called, the inputs left open
InitRun ==
  /\ nruns = 0
  /\ prev = [outcome |-> "none", slicelist |-> <<>>]
  /\ mode = "none"
  /\ pc = "idle"
  /\ outcome = "none"
  /\ slicelist = <<>>
  /\ csvpos = 0
  /\ counter = 1
  /\ srt_len = 0
  /\ srt_offsets = <<>>
  /\ srt_times = <<>>
  /\ srt_gtext = <<>>
  /\ srt_rec = NoRecord
  /\ srt_offset = 0
  /\ bookonlytext = 0
  /\ srtonlytext = 0
  /\ goodtext = 0
  /\ nlines = 0
  /\ chunks = <<>>
  /\ nchunks = 0
  /\ reported = 0
  /\ last_call = NoCall
  /\ probe = NoProbe

Init ==
  /\ scope \in {TimingScope, TextScope}
  /\ csv_path \in Paths
  /\ fs \in [Paths -> OldLedgers]
  /\ (csv_path = CkptPath => fs[AltPath] = NoFile)
  /\ InitRun

\* is_file that also asks for a file of more than trivial size
is_file_nontrivial(path) == fs[path].exists /\ fs[path].lines # <<>>

\* Path.is_file(): whether __init__ takes the ledger as a checkpoint
is_file(path) == fs[path].exists

\* merge_srt(srt_path, text_path, csv_path) is called.  An invocation after the
\* first is followed only when it resumes: a fresh one repeats the first.
StartRun ==
  /\ pc = "idle"
  /\ nruns < MaxRuns
  /\ nruns = 0 \/ is_file(CkptPath)
  /\ nruns' = nruns + 1
  /\ prev' = [outcome |-> outcome, slicelist |-> slicelist]
  /\ outcome' = "none"
  /\ slicelist' = <<>>
  /\ IF is_file(CkptPath)
     THEN mode' = "resume" /\ pc' = "read_csv"
     ELSE mode' = "fresh" /\ pc' = "read_srt"
  /\ csvpos' = 0
  /\ counter' = 1
  /\ srt_len' = 0
  /\ srt_offsets' = <<>>
  /\ srt_times' = <<>>
  /\ srt_gtext' = <<>>
  /\ srt_rec' = NoRecord
  /\ srt_offset' = 0
  /\ bookonlytext' = 0
  /\ srtonlytext' = 0
  /\ goodtext' = 0
  /\ nlines' = 0
  /\ chunks' = <<>>
  /\ nchunks' = 0
  /\ reported' = 0
  /\ last_call' = NoCall
  /\ UNCHANGED <<scope, fs, csv_path, probe>>

\* read_csv: one line of the ledger.  The unpacking of the fields is inside the
\* try whose handler prints the line number; the int() calls come after it.
ReadCsvLine ==
  /\ pc = "read_csv"
  /\ csvpos < Len(fs[CkptPath].lines)
  /\ LET line == fs[CkptPath].lines[csvpos + 1]
         fields == Split(RStrip(line), "|")
     IN  IF line = <<>> \/ line[1] # "G"
         THEN /\ csvpos' = csvpos + 1
              /\ UNCHANGED <<slicelist, pc, outcome, reported>>
         ELSE IF Len(fields) # 4
         THEN /\ pc' = "idle"
              /\ outcome' = "ValueError"
              /\ reported' = csvpos + 1
              /\ UNCHANGED <<slicelist, csvpos>>
         ELSE IF ~IsInt(fields[2]) \/ ~IsInt(fields[3])
         THEN /\ pc' = "idle"
              /\ outcome' = "ValueError"
              /\ UNCHANGED <<slicelist, csvpos, reported>>
         ELSE /\ slicelist' = Append(slicelist, [start |-> StrToInt(fields[2]),
                                                 end |-> StrToInt(fields[3]),
                                                 text |-> fields[4]])
              /\ csvpos' = csvpos + 1
              /\ UNCHANGED <<pc, outcome, reported>>
  /\ UNCHANGED <<fs, runVars, srtVars, srt_offset, logVars, textVars>>

\* read_csv: the end of the ledger; __init__ returns
ReadCsvEnd ==
  /\ pc = "read_csv"
  /\ csvpos = Len(fs[CkptPath].lines)
  /\ pc' = "idle"
  /\ outcome' = "resumed"
  /\ UNCHANGED <<fs, runVars, slicelist, csvVars, srtVars, srt_offset, logVars, textVars>>

\* the test of the word line left out
ContainsSpace_never(line) == FALSE

\* " " in line
ContainsSpace(line) == \E i \in DOMAIN line : line[i] = " "

\* read_srt: one record of the srt file (counter, timestamps, word, separator).
\* A wrong counter ends in AttributeError: the message of line 759 reads
\* self.srtnewlines, which does not exist, before sys.exit(1) is reached.
ReadSrtRecord ==
  /\ pc = "read_srt"
  /\ Len(srt_offsets) < scope.words
  /\ \E n \in {counter, counter + 1}, t1 \in scope.stamps, t2 \in scope.stamps,
        word \in scope.srtwords, wlen \in scope.wordlens, sep \in Separators :
       IF n # counter
       THEN /\ pc' = "idle"
            /\ outcome' = "AttributeError"
            /\ srt_rec' = [n |-> n, expected |-> counter, t1 |-> NoStamp, t2 |-> NoStamp,
                            word |-> <<>>, sep |-> <<>>]
            /\ UNCHANGED <<counter, srt_len, srt_offsets, srt_times, srt_gtext>>
       ELSE IF ContainsSpace(word)
       THEN /\ pc' = "idle"
            /\ outcome' = "exit1"
            /\ counter' = counter + 1
            /\ srt_rec' = [n |-> n, expected |-> counter, t1 |-> t1, t2 |-> t2,
                            word |-> word, sep |-> <<>>]
            /\ UNCHANGED <<srt_len, srt_offsets, srt_times, srt_gtext>>
       ELSE /\ counter' = counter + 1
            /\ srt_times' = Append(srt_times, <<srt_time_to_ms(t1), srt_time_to_ms(t2)>>)
            /\ srt_offsets' = Append(srt_offsets, srt_len)
            /\ srt_gtext' = Append(srt_gtext, word)
            /\ srt_len' = srt_len + wlen
            /\ srt_rec' = [n |-> n, expected |-> counter, t1 |-> t1, t2 |-> t2,
                            word |-> word, sep |-> sep]
            /\ IF sep # <<>> /\ sep # <<"\n">>
               THEN pc' = "idle" /\ outcome' = "exit1"
               ELSE IF sep = <<>>
               THEN pc' = "open_log" /\ outcome' = outcome
               ELSE pc' = "read_srt" /\ outcome' = outcome
  /\ UNCHANGED <<fs, runVars, slicelist, csvVars, srt_offset, logVars, textVars>>

\* read_srt: the end of the srt file where a record would start
ReadSrtEnd ==
  /\ pc = "read_srt"
  /\ pc' = "open_log"
  /\ srt_rec' = NoRecord
  /\ UNCHANGED <<fs, runVars, outcome, slicelist, csvVars, counter, srt_len, srt_offsets,
                 srt_times, srt_gtext, srt_offset, logVars, textVars>>

\* __init__: the counters are reset and the ledger is opened with mode 'w'
OpenLog ==
  /\ pc = "open_log"
  /\ bookonlytext' = 0
  /\ srtonlytext' = 0
  /\ goodtext' = 0
  /\ fs' = [fs EXCEPT ![csv_path] = File(<<>>)]
  /\ pc' = "read_text"
  /\ srt_rec' = NoRecord
  /\ UNCHANGED <<runVars, outcome, slicelist, csvVars, counter, srt_len, srt_offsets,
                 srt_times, srt_gtext, srt_offset, textVars>>

\* read_text: one line of the ebook is read and split into chunks
ReadTextLine ==
  /\ pc = "read_text"
  /\ chunks = <<>>
  /\ nlines < scope.lines
  /\ \E line \in StringsUpTo(scope.alphabet, scope.linelen) :
       chunks' = quotesplit(dumbquote(RStrip(line)))
  /\ nlines' = nlines + 1
  /\ last_call' = NoCall
  /\ UNCHANGED <<fs, runVars, pc, outcome, slicelist, csvVars, srtVars, srt_offset, logVars,
                 nchunks>>

\* write_text(chunk) for the next chunk of the line
WriteText ==
  /\ pc = "read_text"
  /\ chunks # <<>>
  /\ \E plen \in scope.chunklens :
       LET text == Head(chunks)
           wlen == WindowLen(srt_offset, WindowEnd(srt_offset, plen))
       IN  \E matches \in CandidateLists(plen, wlen, plen \div 4) :
           /\ last_call' = [plen |-> plen, matches |-> matches, cursor |-> srt_offset,
                            text |-> text, lines |-> Len(fs[csv_path].lines),
                            slices |-> slicelist]
           /\ IF to_ms_raises(srt_offsets, srt_times, srt_offset)
              THEN /\ pc' = "idle"
                   /\ outcome' = "IndexError"
                   /\ UNCHANGED <<fs, slicelist, srt_offset, logVars, chunks, nchunks>>
              ELSE LET r == scan(LogState, srt_offset, matches, plen, text)
                   IN  /\ fs' = [fs EXCEPT ![csv_path].lines = r.st.lines]
                       /\ goodtext' = r.st.good
                       /\ bookonlytext' = r.st.book
                       /\ srtonlytext' = r.st.srt
                       /\ slicelist' = r.st.slices
                       /\ srt_offset' = r.cursor
                       /\ chunks' = Tail(chunks)
                       /\ nchunks' = nchunks + 1
                       /\ UNCHANGED <<pc, outcome>>
  /\ UNCHANGED <<runVars, csvVars, srtVars, nlines>>

\* the final test with <= for <
merge_failed_le == goodtext <= bookonlytext + srtonlytext

\* self.goodtext < self.bookonlytext + self.srtonlytext
merge_failed == goodtext < bookonlytext + srtonlytext

\* read_text returns at the end of the ebook; the ledger is closed and validated
Finish ==
  /\ pc = "read_text"
  /\ chunks = <<>>
  /\ IF merge_failed
     THEN /\ fs' = [fs EXCEPT ![csv_path] = NoFile]
          /\ outcome' = "exit10"
     ELSE /\ outcome' = "ok"
          /\ UNCHANGED fs
  /\ pc' = "idle"
  /\ last_call' = NoCall
  /\ UNCHANGED <<runVars, slicelist, csvVars, srtVars, srt_offset, logVars, nlines, chunks,
                 nchunks>>

Next ==
  \/ StartRun
  \/ ReadCsvLine
  \/ ReadCsvEnd
  \/ ReadSrtRecord
  \/ ReadSrtEnd
  \/ OpenLog
  \/ ReadTextLine
  \/ WriteText
  \/ Finish

Spec == Init /\ [][Next]_vars

\* ------------------------------------------- runs with long and short chunks
InitWindow ==
  /\ scope = WindowScope
  /\ csv_path \in Paths
  /\ fs \in [Paths -> OldLedgers]
  /\ (csv_path = CkptPath => fs[AltPath] = NoFile)
  /\ InitRun

SpecWindow == InitWindow /\ [][Next]_vars

\* ------------------------------------------------ to_ms called on its own
\* a run over a transcript of ResolverScope, with no ledger on disk
InitResolver ==
  /\ scope = ResolverScope
  /\ csv_path = CkptPath
  /\ fs = [p \in Paths |-> NoFile]
  /\ InitRun

\* self.to_ms(offset), for any offset into the transcript that read_srt has built
ToMsCall ==
  /\ pc = "open_log"
  /\ \E offset \in 0..srt_len :
       probe' = IF to_ms_raises(srt_offsets, srt_times, offset)
                THEN [fn |-> "to_ms", offset |-> offset, raised |-> TRUE, ms |-> 0]
                ELSE [fn |-> "to_ms", offset |-> offset, raised |-> FALSE,
                      ms |-> to_ms(srt_offsets, srt_times, offset)]
  /\ UNCHANGED <<scope, fs, csv_path, nruns, prev, mode, pc, outcome, slicelist, csvVars,
                 srtVars, srt_offset, logVars, textVars>>

NextResolver ==
  \/ StartRun
  \/ ReadSrtRecord
  \/ ReadSrtEnd
  \/ ToMsCall

SpecResolver == InitResolver /\ [][NextResolver]_vars

\* ------------------------------------------------- vocabulary of the claims
IsPrefix(a, b) == Len(a) <= Len(b) /\ SubSeq(b, 1, Len(a)) = a

\* the word times of the transcript never go back
TimesNonDecreasing ==
  /\ \A i \in DOMAIN srt_times : srt_times[i][1] <= srt_times[i][2]
  /\ \A i \in 1..(Len(srt_times) - 1) : srt_times[i][2] <= srt_times[i + 1][1]

\* the kind of a ledger line: its first character
LineKind(line) == IF line = <<>> THEN "" ELSE line[1]

\* the number of lines of a kind in a ledger
CountKind(lines, kind) == Cardinality({i \in DOMAIN lines : LineKind(lines[i]) = kind})

\* the 1-based place of the n-th "|" of a line written by log()
RECURSIVE NthBar(_, _, _)
NthBar(line, n, from) ==
  LET i == CHOOSE j \in from..Len(line) : line[j] = "|" /\ \A k \in from..(j - 1) : line[k] # "|"
  IN  IF n = 1 THEN i ELSE NthBar(line, n - 1, i + 1)

\* what a G line written by log() records: the two times, and as text
\* everything after the third "|"
GEntry(line) ==
  LET b1 == NthBar(line, 1, 1)
      b2 == NthBar(line, 2, 1)
      b3 == NthBar(line, 3, 1)
  IN  [start |-> DigitsToInt(SubSeq(line, b1 + 1, b2 - 1)),
       end |-> DigitsToInt(SubSeq(line, b2 + 1, b3 - 1)),
       text |-> SubSeq(line, b3 + 1, Len(line))]

\* the G records of a ledger written by log(), in order
GEntries(lines) ==
  LET g == SelectSeq(lines, LAMBDA l : LineKind(l) = "G")
  IN  [i \in DOMAIN g |-> GEntry(g[i])]

HasBlank(word) == \E i \in DOMAIN word : word[i] = " "
HasWhitespace(word) == \E i \in DOMAIN word : word[i] \in Whitespace

\* a fresh run that got as far as opening its ledger
LedgerOpened == mode = "fresh" /\ (pc = "read_text" \/ outcome \in {"ok", "exit10", "IndexError"})

\* -------------------------------------------- quotesplit called on its own
\* the characters of the texts quotesplit is called on
QuoteAlphabet == {"a", " ", "\""}

\* He said "hello there." Then left.
QuoteExample ==
  <<"H", "e", " ", "s", "a", "i", "d", " ",
    "\"", "h", "e", "l", "l", "o", " ", "t", "h", "e", "r", "e", ".", "\"", " ",
    "T", "h", "e", "n", " ", "l", "e", "f", "t", ".">>

QuoteInputs == StringsUpTo(QuoteAlphabet, MaxQuoteLen) \cup {QuoteExample}

\* no run is started: only the function is called
InitQuote ==
  /\ scope = TextScope
  /\ csv_path = CkptPath
  /\ fs = [p \in Paths |-> NoFile]
  /\ InitRun

\* self.quotesplit(text)
QuoteSplitCall ==
  /\ pc = "idle"
  /\ nruns = 0
  /\ \E text \in QuoteInputs :
       probe' = [fn |-> "quotesplit", text |-> text, out |-> quotesplit(text)]
  /\ UNCHANGED <<scope, fs, csv_path, nruns, prev, mode, pc, outcome, slicelist, csvVars,
                 srtVars, srt_offset, logVars, textVars>>

NextQuote == QuoteSplitCall

SpecQuote == InitQuote /\ [][NextQuote]_vars

\* ------------------------------------------------------------------ claims
\* C1: during one alignment run the cursor srt_offset never decreases, whatever
\* candidates the fuzzy search returns for the chunks passed to write_text.
C1_CursorNonDecreasing == [][nruns' = nruns => srt_offset' >= srt_offset]_vars

\* C1 witness: two chunks have been written, one of them matched, and the
\* cursor has moved.
C1_Witness == mode = "fresh" /\ nchunks >= 2 /\ goodtext >= 1 /\ srt_offset > 0

\* C2 (as claimed): over a transcript whose word times never go back, the
\* slicelist of a fresh run is sorted by start and consecutive entries do not
\* overlap: end[i] <= start[i+1].
C2_SliceListOrdered ==
  (mode = "fresh" /\ TimesNonDecreasing) =>
    \A i \in 1..(Len(slicelist) - 1) :
      /\ slicelist[i].start <= slicelist[i + 1].start
      /\ slicelist[i].end <= slicelist[i + 1].start

\* C3 (as claimed): a resume from the ledger a successful fresh run has just
\* written ends normally with the slicelist that run built in memory.
C3_ResumeEquivalence ==
  (mode = "resume" /\ pc = "idle" /\ prev.outcome = "ok" /\ csv_path = CkptPath) =>
    (outcome = "resumed" /\ slicelist = prev.slicelist)

\* C4 (as claimed): a run takes the ledger as its checkpoint exactly when the
\* file exists and holds more than nothing.
C4_TrustedIffNonTrivial ==
  [][(pc = "idle" /\ pc' # "idle") =>
       (mode' = "resume" <=> (fs[CkptPath].exists /\ fs[CkptPath].lines # <<>>))]_vars

\* C4 (amended): a run takes text_path.with_suffix('.csv') as its checkpoint
\* exactly when that file exists, whatever its size; a resuming run reads no srt
\* record and no ebook line, writes no file, and ends with one slicelist entry
\* for each G line; a run that finds no such file starts by reading the srt.
C4_TrustedIffExists ==
  /\ [][(pc = "idle" /\ pc' # "idle") =>
          /\ mode' = "resume" <=> fs[CkptPath].exists
          /\ mode' = "resume" => pc' = "read_csv"
          /\ mode' = "fresh" => pc' = "read_srt"]_vars
  /\ [][mode' = "resume" => fs' = fs]_vars
  /\ [](mode = "resume" =>
          /\ pc \in {"read_csv", "idle"}
          /\ srt_offsets = <<>> /\ srt_rec = NoRecord /\ nlines = 0 /\ nchunks = 0
          /\ outcome = "resumed" =>
               Len(slicelist) = CountKind(fs[CkptPath].lines, "G"))

\* C4 witness: an existing empty ledger has been trusted, and the run has ended
\* with an empty slicelist.
C4_Witness ==
  mode = "resume" /\ outcome = "resumed" /\ fs[CkptPath].lines = <<>> /\ slicelist = <<>>

\* C5: once every chunk is written, the fresh run deletes its ledger and aborts
\* iff goodtext < bookonlytext + srtonlytext; otherwise, equality included, the
\* ledger stays, with at least as many G lines as B and S lines together,
\* whatever the number of M lines.
C5_FinalValidation ==
  (mode = "fresh" /\ pc = "idle" /\ outcome \in {"ok", "exit10"}) =>
    /\ outcome = "exit10" <=> goodtext < bookonlytext + srtonlytext
    /\ outcome = "exit10" => ~fs[csv_path].exists
    /\ outcome = "ok" =>
         /\ fs[csv_path].exists
         /\ CountKind(fs[csv_path].lines, "G") >=
              CountKind(fs[csv_path].lines, "B") + CountKind(fs[csv_path].lines, "S")

\* C5 witness: a run has ended well with as many matched as discarded records
\* and with an M record in its ledger, which counting would have made a failure.
C5_Witness ==
  /\ mode = "fresh" /\ outcome = "ok"
  /\ goodtext >= 1 /\ goodtext = bookonlytext + srtonlytext
  /\ CountKind(fs[csv_path].lines, "M") >= 1

\* C6 (as claimed): no word with whitespace in it is ever taken into the
\* transcript: its record ends the run.
C6_NoWhitespaceWord == \A i \in DOMAIN srt_gtext : ~HasWhitespace(srt_gtext[i])

\* C6 (amended): the record read last ends the run (sys.exit(1), or the
\* AttributeError on the way to it) iff its counter differs from the running
\* count, its word holds a blank (" "; other whitespace is not looked for), or
\* its separator is not blank; the counter is the number of records accepted
\* plus one; and after the fatal record the transcript index stays as it is.
C6_ProtocolEnforced ==
  /\ [](srt_rec # NoRecord =>
          LET badCounter == srt_rec.n # srt_rec.expected
              badWord == HasBlank(srt_rec.word)
              badSep == srt_rec.sep \notin {<<>>, <<"\n">>}
          IN  /\ (badCounter \/ badWord \/ badSep) <=>
                   (pc = "idle" /\ outcome \in {"exit1", "AttributeError"})
              /\ srt_rec.expected =
                   Len(srt_offsets) + (IF badCounter \/ badWord THEN 1 ELSE 0))
  /\ [](\A i \in DOMAIN srt_gtext : ~HasBlank(srt_gtext[i]))
  /\ [][(outcome \in {"exit1", "AttributeError"} /\ nruns' = nruns) =>
          UNCHANGED <<srt_offsets, srt_times, srt_gtext, srt_len>>]_vars

\* C6 witness: a record whose word holds a blank has ended the run after an
\* earlier record was accepted.
C6_Witness ==
  /\ outcome = "exit1" /\ HasBlank(srt_rec.word) /\ Len(srt_offsets) = 1

\* C7 (as claimed): a fresh run ends abnormally only by a protocol violation of
\* the transcript or by the final validation.
C7_OnlyProtocolOrValidationAbort ==
  mode = "fresh" => outcome \in {"none", "ok", "exit1", "AttributeError", "exit10"}

\* C8 (as claimed): after a fresh run that opened its ledger and then aborted,
\* the ledger is not on disk.
C8_NoLedgerAfterAbort ==
  (LedgerOpened /\ pc = "idle" /\ outcome # "ok") => ~fs[csv_path].exists

C10_SliceListFromMatched ==
  /\ (LedgerOpened /\ fs[csv_path].exists) => slicelist = GEntries(fs[csv_path].lines)
  /\ (mode = "resume" /\ outcome # "ValueError") =>
       Len(slicelist) = CountKind(SubSeq(fs[CkptPath].lines, 1, csvpos), "G")

\* C10 witness: the ledger of a fresh run holds G, S, B and M lines, and the
\* slicelist has an entry.
C10_Witness ==
  /\ LedgerOpened /\ fs[csv_path].exists /\ Len(slicelist) >= 1
  /\ \A k \in {"G", "S", "B", "M"} : CountKind(fs[csv_path].lines, k) >= 1

\* the probe is a to_ms call at the start offset of word k (counted from 1)
ProbeAtWord(k) ==
  /\ probe.fn = "to_ms" /\ ~probe.raised
  /\ k \in DOMAIN srt_offsets /\ probe.offset = srt_offsets[k]

\* the probe is a to_ms call exactly halfway between the start offsets of
\* words k and k+1
ProbeHalfway(k) ==
  /\ probe.fn = "to_ms" /\ ~probe.raised
  /\ k \in 1..(Len(srt_offsets) - 1)
  /\ 2 * probe.offset = srt_offsets[k] + srt_offsets[k + 1]

\* the transcript of the scenario: three words at offsets 0, 6 and 12 with the
\* times (0,500), (500,900), (900,1400)
ThreeWords ==
  /\ srt_offsets = <<0, 6, 12>>
  /\ srt_times = << <<0, 500>>, <<500, 900>>, <<900, 1400>> >>

\* C11 (as claimed): to_ms of the start offset of a word is the start time of
\* that word, for the first word and for every later one, with or without a gap
\* before it; here already over the transcripts whose times never go back.
C11_RoundTrip ==
  TimesNonDecreasing =>
    \A k \in 1..MaxProbeWords : ProbeAtWord(k) => probe.ms = srt_times[k][1]

\* C11 (amended): to_ms of the start offset of the first word is that word's
\* start time; of the start offset of any later word k it is the middle,
\* rounded down, between the end of word k-1 and the start of word k, which is
\* the start of word k when word k starts where word k-1 ends.
C11_StartOrMidGap ==
  \A k \in 1..MaxProbeWords :
    ProbeAtWord(k) =>
      IF k = 1 THEN probe.ms = srt_times[1][1]
      ELSE /\ probe.ms = srt_times[k - 1][2]
                           + ((srt_times[k][1] - srt_times[k - 1][2]) \div 2)
           /\ srt_times[k][1] = srt_times[k - 1][2] => probe.ms = srt_times[k][1]

\* C11 witness: to_ms was called at the start offset of the third word of a
\* transcript whose times never go back, there is a gap before that word, and
\* the result lies inside the gap.
C11_Witness ==
  /\ ProbeAtWord(3) /\ TimesNonDecreasing
  /\ srt_times[2][2] < probe.ms /\ probe.ms < srt_times[3][1]

\* C12 (as claimed): in the scenario to_ms(9) is 900, and in general to_ms of
\* an offset exactly halfway between the start offsets of words k and k+1 is the
\* middle between the end of word k and the start of word k+1.
C12_HalfwayIsNextBoundary ==
  /\ (ThreeWords /\ probe.fn = "to_ms" /\ probe.offset = 9) => probe.ms = 900
  /\ \A k \in 1..MaxProbeWords :
       ProbeHalfway(k) =>
         probe.ms = srt_times[k][2] + ((srt_times[k + 1][1] - srt_times[k][2]) \div 2)

\* C12 (amended): in the scenario to_ms(9) is 500; in general an offset exactly
\* halfway between the start offsets of words k and k+1 is taken as word k, and
\* for k >= 2 to_ms returns the middle, rounded down, between the end of word
\* k-1 and the start of word k, whether the two abut or not.
C12_HalfwayIsPreviousBoundary ==
  /\ (ThreeWords /\ probe.fn = "to_ms" /\ probe.offset = 9) => probe.ms = 500
  /\ \A k \in 2..MaxProbeWords :
       ProbeHalfway(k) =>
         probe.ms = srt_times[k - 1][2] + ((srt_times[k][1] - srt_times[k - 1][2]) \div 2)

\* C12 witness: to_ms(9) was called on the transcript of the scenario and
\* returned 500.
C12_Witness == ThreeWords /\ probe.fn = "to_ms" /\ probe.offset = 9 /\ probe.ms = 500

\* the milliseconds a timestamp HH:MM:SS,mmm stands for
StampMs(t) == ((t.h * 60 + t.m) * 60 + t.s) * 1000 + t.ms

\* C13 (as claimed): at every point of ingestion and after it the offsets and
\* the times have one entry for each word accepted, the offsets never go back,
\* and the start times never go back.
C13_IndexOrdered ==
  /\ Len(srt_offsets) = Len(srt_times)
  /\ Len(srt_times) = Len(srt_gtext)
  /\ \A i \in 1..(Len(srt_offsets) - 1) : srt_offsets[i] <= srt_offsets[i + 1]
  /\ \A i \in 1..(Len(srt_times) - 1) : srt_times[i][1] <= srt_times[i + 1][1]

\* C13 (amended): at every point of ingestion and after it the offsets and the
\* times have one entry for each word accepted; the offsets start at 0, grow
\* strictly and stay below the length of the buffer; and each accepted record
\* appends its own two timestamps, in milliseconds, to the times, whatever the
\* times before it are; no other step changes the index.
C13_IndexParallel ==
  /\ [](/\ Len(srt_offsets) = Len(srt_times)
        /\ Len(srt_times) = Len(srt_gtext)
        /\ \A i \in 1..(Len(srt_offsets) - 1) : srt_offsets[i] < srt_offsets[i + 1]
        /\ srt_offsets # <<>> =>
              srt_offsets[1] = 0 /\ srt_offsets[Len(srt_offsets)] < srt_len)
  /\ [][nruns' = nruns =>
          \/ UNCHANGED <<srt_offsets, srt_times, srt_gtext>>
          \/ /\ pc = "read_srt"
             /\ srt_times' = Append(srt_times, <<StampMs(srt_rec'.t1), StampMs(srt_rec'.t2)>>)
             /\ srt_offsets' = Append(srt_offsets, srt_len)
             /\ srt_gtext' = Append(srt_gtext, srt_rec'.word)]_vars

\* C13 witness: the ingestion is over and the run is aligning; two words were
\* accepted and the second starts before the first.
C13_Witness ==
  /\ pc = "read_text" /\ Len(srt_times) = 2
  /\ srt_times[2][1] < srt_times[1][1]

\* the number of plain quotes in a string
QuoteCount(str) == Cardinality({i \in DOMAIN str : str[i] = "\""})

\* C14 (as claimed): every segment of quotesplit is either free of quotes or a
\* quoted span from its opening quote to its closing one (to the end of the
\* text if it is not closed), and the text He said "hello there." Then left.
\* gives exactly the segments He said / "hello there." / Then left.
C14_QuoteSegments ==
  probe.fn = "quotesplit" =>
    /\ \A i \in DOMAIN probe.out :
         LET seg == probe.out[i]
         IN  \/ QuoteCount(seg) = 0
             \/ QuoteCount(seg) = 2 /\ seg[1] = "\"" /\ seg[Len(seg)] = "\""
             \/ QuoteCount(seg) = 1 /\ seg[1] = "\"" /\ i = Len(probe.out)
    /\ probe.text = QuoteExample =>
         probe.out = << <<"H", "e", " ", "s", "a", "i", "d">>,
                        <<"\"", "h", "e", "l", "l", "o", " ", "t", "h", "e", "r", "e", ".", "\"">>,
                        <<"T", "h", "e", "n", " ", "l", "e", "f", "t", ".">> >>

\* the last step was a write_text call, and it returned
CallReturned == last_call # NoCall /\ pc = "read_text"

\* the ledger lines the last write_text call wrote, comment lines left out
NewRecords ==
  SelectSeq(SubSeq(fs[csv_path].lines, last_call.lines + 1, Len(fs[csv_path].lines)),
            LAMBDA l : LineKind(l) # "#")

\* C15: write_text searches only the 2 * len(p) characters after the cursor when
\* len(p) > 80 and the 2000 characters after it otherwise: every candidate lies
\* inside that window and inside the buffer, and the cursor does not move past
\* it; when the window holds no candidate, whatever the buffer holds beyond it,
\* the call writes one B record and no G record and leaves the cursor and the
\* slicelist as they were.
C15_WindowBounded ==
  CallReturned =>
    LET plen == last_call.plen
        window == IF plen > 80 THEN 2 * plen ELSE 2000
    IN  /\ \A i \in DOMAIN last_call.matches :
             /\ last_call.matches[i].end <= window
             /\ last_call.cursor + last_call.matches[i].end <= srt_len
        /\ srt_offset <= last_call.cursor + window
        /\ last_call.matches = <<>> =>
             /\ Len(NewRecords) = 1 /\ LineKind(NewRecords[1]) = "B"
             /\ srt_offset = last_call.cursor
             /\ slicelist = last_call.slices

\* C15 witness: a chunk of more than 80 characters found no candidate in its
\* window while the buffer goes on for more than 750 characters beyond it; the
\* call wrote a B record and left the cursor.
C15_Witness ==
  /\ CallReturned /\ last_call.plen > 80 /\ last_call.matches = <<>>
  /\ srt_len > last_call.cursor + 2 * last_call.plen + 750
  /\ LineKind(NewRecords[1]) = "B" /\ srt_offset = last_call.cursor

\* a G line of a ledger that does not have four fields with whole numbers as
\* the second and the third
MalformedG(line) ==
  /\ LineKind(line) = "G"
  /\ LET fields == Split(RStrip(line), "|")
     IN  Len(fields) # 4 \/ ~IsInt(fields[2]) \/ ~IsInt(fields[3])

\* C16 (as claimed): a resume from a ledger with a malformed G line ends in a
\* parse error whose message names the first such line, and hands over no
\* slicelist; a resume from any other ledger ends normally.
C16_MalformedLineNamed ==
  (mode = "resume" /\ pc = "idle") =>
    LET lines == fs[CkptPath].lines
        bad == {i \in DOMAIN lines : MalformedG(lines[i])}
    IN  IF bad = {} THEN outcome = "resumed"
        ELSE /\ outcome = "ValueError"
             /\ reported \in bad /\ \A i \in bad : reported <= i

\* candidate i of the last call passes match.start < 1000 * (1 - dist / len(p))
AcceptedAt(i) ==
  last_call.matches[i].start * last_call.plen
    < 1000 * (last_call.plen - last_call.matches[i].dist)

\* the place of the first candidate of the last call that passes, 0 if none does
FirstAccepted ==
  LET A == {i \in DOMAIN last_call.matches : AcceptedAt(i)}
  IN  IF A = {} THEN 0 ELSE CHOOSE i \in A : \A j \in A : i <= j

\* the time to_ms gives for an offset relative to the cursor of the last call
TimeAt(rel) == to_ms(srt_offsets, srt_times, last_call.cursor + rel)

\* C17: the candidates are examined in order and the first that passes
\* match.start < 1000 * (1 - dist / len(p)) is accepted: the call writes one M
\* record, with the times of its span, for each candidate before that one, then
\* no further M record and exactly one G record, and moves the cursor to the end
\* of the accepted candidate, whatever candidates follow it; when no candidate
\* passes, each of them gets its M record and no G record is written.
C17_FirstPassingAccepted ==
  CallReturned =>
    LET k == FirstAccepted
        rejected == IF k = 0 THEN Len(last_call.matches) ELSE k - 1
    IN  /\ Len(NewRecords) > rejected
        /\ \A i \in 1..rejected :
             NewRecords[i] = LogLine("M", TimeAt(last_call.matches[i].start),
                                     TimeAt(last_call.matches[i].end), Phon)
        /\ \A i \in (rejected + 1)..Len(NewRecords) : LineKind(NewRecords[i]) # "M"
        /\ CountKind(NewRecords, "G") = (IF k = 0 THEN 0 ELSE 1)
        /\ k # 0 => /\ LineKind(NewRecords[Len(NewRecords)]) = "G"
                    /\ srt_offset = last_call.cursor + last_call.matches[k].end

\* C17 witness: of two candidates the first failed the test and the second
\* passed it; the call wrote an M record and then a G record.
C17_Witness ==
  /\ CallReturned /\ Len(last_call.matches) = 2 /\ FirstAccepted = 2
  /\ LineKind(NewRecords[1]) = "M" /\ LineKind(NewRecords[Len(NewRecords)]) = "G"

\* C18: when a candidate is accepted, the records after the M records are an S
\* record from the time of the cursor to the start time of the candidate,
\* written iff the candidate does not start at the cursor, and then one G
\* record from the start time to the end time of the candidate with the text of
\* the chunk; the S record ends where the G record starts; the G record is the
\* last record of the call and its entry the only one added to the slicelist;
\* the cursor becomes the end of the candidate.
C18_AcceptanceEffects ==
  (CallReturned /\ FirstAccepted # 0) =>
    LET k == FirstAccepted
        c == last_call.matches[k]
        after == SubSeq(NewRecords, k, Len(NewRecords))
        skipped == LogLine("S", TimeAt(0), TimeAt(c.start), Phon)
        matched == LogLine("G", TimeAt(c.start), TimeAt(c.end), last_call.text)
    IN  /\ after = (IF c.start # 0 THEN <<skipped, matched>> ELSE <<matched>>)
        /\ c.start # 0 => GEntry(after[1]).end = GEntry(after[2]).start
        /\ slicelist = Append(last_call.slices,
                              [start |-> TimeAt(c.start), end |-> TimeAt(c.end),
                               text |-> last_call.text])
        /\ srt_offset = last_call.cursor + c.end

\* C18 witness: a candidate that starts past the cursor was accepted when the
\* cursor had already moved; an S record precedes the G record, and a second
\* call has accepted a candidate at the cursor and written no S record.
C18_Witness ==
  /\ CallReturned /\ FirstAccepted # 0 /\ last_call.cursor > 0
  /\ last_call.matches[FirstAccepted].start # 0
  /\ LineKind(NewRecords[Len(NewRecords) - 1]) = "S"
  /\ CountKind(fs[csv_path].lines, "G") = 2 /\ CountKind(fs[csv_path].lines, "S") = 1

\* C19 (as claimed): when the call accepts no candidate, after the M records it
\* writes exactly one B record whose start and end are the time of the cursor,
\* and the cursor and the slicelist stay as they were.
C19_NoAcceptanceWritesB ==
  (last_call # NoCall /\ FirstAccepted = 0) =>
    /\ Len(NewRecords) = Len(last_call.matches) + 1
    /\ \A i \in 1..Len(last_call.matches) : LineKind(NewRecords[i]) = "M"
    /\ NewRecords[Len(NewRecords)] = LogLine("B", TimeAt(0), TimeAt(0), last_call.text)
    /\ srt_offset = last_call.cursor
    /\ slicelist = last_call.slices

\* C20 (as claimed): whatever text_path and csv_path are, the file a run tests
\* and reads as its checkpoint is the file a fresh run writes its ledger to: the
\* ledger a successful fresh run leaves is the file the next run finds, and a
\* fresh run changes no file other than the one the test looked at.
C20_CheckpointIsLedger ==
  /\ []((mode = "fresh" /\ pc = "idle" /\ outcome = "ok") =>
          (fs[CkptPath].exists /\ fs[CkptPath] = fs[csv_path]))
  /\ [][mode' = "fresh" => \A p \in Paths \ {CkptPath} : fs'[p] = fs[p]]_vars

\* the G, S, M and B lines of a ledger, comment lines left out
Records(lines) == SelectSeq(lines, LAMBDA l : LineKind(l) \in {"G", "S", "M", "B"})

\* C21 (as claimed): over a transcript whose word times never go back, every
\* G, S, M and B record a fresh run writes and every slicelist entry has
\* start <= end, wherever the cursor is and wherever the candidates lie.
C21_RangesWellFormed ==
  (LedgerOpened /\ fs[csv_path].exists /\ TimesNonDecreasing) =>
    /\ \A i \in DOMAIN Records(fs[csv_path].lines) :
         GEntry(Records(fs[csv_path].lines)[i]).start
           <= GEntry(Records(fs[csv_path].lines)[i]).end
    /\ \A i \in DOMAIN slicelist : slicelist[i].start <= slicelist[i].end

\* C22: at every point of a fresh run, with k the number of write_text calls
\* that have returned, goodtext + bookonlytext = k, srtonlytext <= goodtext and
\* len(slicelist) = goodtext; while the ledger is on disk its G, B and S lines
\* are as many as the three counters say.
C22_OutcomeAccounting ==
  mode = "fresh" =>
    /\ goodtext + bookonlytext = nchunks
    /\ srtonlytext <= goodtext
    /\ Len(slicelist) = goodtext
    /\ (LedgerOpened /\ fs[csv_path].exists) =>
         /\ CountKind(fs[csv_path].lines, "G") = goodtext
         /\ CountKind(fs[csv_path].lines, "B") = bookonlytext
         /\ CountKind(fs[csv_path].lines, "S") = srtonlytext

\* C22 witness: two chunks have been written, one matched after skipped
\* transcript text and one discarded, and a candidate was rejected on the way.
C22_Witness ==
  /\ mode = "fresh" /\ pc = "read_text" /\ nchunks = 2
  /\ goodtext = 1 /\ bookonlytext = 1 /\ srtonlytext = 1
  /\ CountKind(fs[csv_path].lines, "M") >= 1

====
